---- MODULE Spec2Model ----
(***************************************************************************)
(* Model of the three TCL cloud clients of the repository:                 *)
(*   "root" : src/api.py                       (class TclApi, asyncio)     *)
(*   "ac"   : src/custom_components/tcl_ac/api.py (class TclApi, asyncio)  *)
(*   "tcl"  : src/custom_components/tcl/api.py    (class TCLAPI, blocking) *)
(* One client instance is modelled; Init chooses which class it is.  The   *)
(* callers of the client are tasks that interleave at the points where the *)
(* code waits for a network response.  Each action is one step of the code *)
(* between two such points: it consumes the response of the request the    *)
(* task is waiting for (drawn from a set of response shapes) and runs the  *)
(* handler up to the next request or up to the end of the call.            *)
(* entity is the TclClimateEntity of tcl_ac/climate.py that sends its      *)
(* commands through the client.                                            *)
(***************************************************************************)
EXTENDS Integers, Sequences, FiniteSets, TLC

VARIABLES impl, tz, now, nCalls, creds, task, sig, entity

vars == <<impl, tz, now, nCalls, creds, task, sig, entity>>

(* ------------------------------ bounds -------------------------------- *)

\* total number of client calls started in a behaviour
MaxCalls == 2
\* the strings handed to the request signature have 1 to MaxStr characters
MaxStr == 2
\* the clock runs from 0 to MaxTime (minutes)
MaxTime == 2

(* ------------------------- program constants -------------------------- *)

\* buffer = datetime.timedelta(minutes=5)
Skew == 5
\* offset of the host's local time from UTC, in minutes, as far as
\* datetime.fromtimestamp() is concerned
TzMinutes == 60

\* the concurrent callers of the one client instance
Tasks == {"a", "b"}
Impls == {"root", "ac", "tcl"}
TzOffsets == {0 - TzMinutes, 0, TzMinutes}
\* lifetimes of cloud credentials handed out by the credential exchange:
\* one that reaches the refresh buffer within the clock's range, one that does not
Lifetimes == {Skew + 1, Skew + MaxTime + 2}

\* Python None, for every credential field; a set field holds the number of
\* the call whose pipeline run took it from a response
None == 0

(* ------------------------- request signature ------------------------- *)

\* Strings are sequences of characters.  hashlib.md5(...).hexdigest(): the
\* digest of a string, taken as free of collisions; it is marked so that no
\* digest is its own input.
Md5(s) == <<"md5">> \o s

\* a signature that leaves the nonce out
LegacySignNoNonce(timestamp, nonce, token) == Md5(timestamp \o token)

\* calculate_md5_hash_bytes(timestamp + nonce + token): the "sign" header
LegacySign(timestamp, nonce, token) == Md5(timestamp \o nonce \o token)

\* str(int(time.time())) and str(int(time.time() * 1000)) at one reading of
\* the clock: the second is the first followed by the three digits of the
\* milliseconds
Seconds(clock) == <<ToString(clock)>>
Millis(clock) == <<ToString(clock), "000">>

\* no signature computed
NoSig == [timestamp |-> <<>>, nonce |-> <<>>, token |-> <<>>, sign |-> <<>>]

(* ------------------------------ state --------------------------------- *)

\* The credential fields of the client object.
\*   root: _sso_token _user_id _country_abbr _saas_token _cognito_token
\*         _aws_credentials (aws: the dict; ak sk st expEnc: its keys)
\*   ac  : _sso_token _username_id _country_abbr _saas_token _cognito_token
\*         _cognito_id _aws_access_key_id _aws_secret_key _aws_session_token
\*   tcl : _access_token (saas) _aws_credentials (aws, ak, sk, st, expEnc)
\* expEnc is the encoding of the stored "Expiration" value ("none": nothing
\* stored, "absent": key missing from the stored dict); expAt is the instant
\* (UTC minutes) at which the vendor lets the stored session token expire.
EmptyCreds ==
  [sso |-> None, user |-> None, country |-> None, saas |-> None,
   cognito |-> None, cognitoId |-> None, aws |-> None,
   ak |-> None, sk |-> None, st |-> None, expEnc |-> "none", expAt |-> 0]

TokenFields == {"sso", "user", "country", "saas", "cognito", "cognitoId",
                "aws", "ak", "sk", "st"}

\* What a call found when it was made: cloud: the three cloud-credential
\* fields were all set; full: so were the service-access token and the
\* country code (where the client keeps one); fresh: the cloud credentials
\* were set and their vendor-side expiry was more than Skew minutes away;
\* enc: the encoding of the stored expiry.
Pre(c, clock) ==
  LET cloud == c.ak # None /\ c.sk # None /\ c.st # None
  IN  [cloud |-> cloud,
       full  |-> cloud /\ c.saas # None /\ (impl = "tcl" \/ c.country # None),
       fresh |-> cloud /\ c.expAt - Skew > clock,
       enc   |-> c.expEnc]

\* No control request built in this call.
NoCtl == [clientToken |-> <<>>, service |-> "none", ak |-> None, sk |-> None,
          st |-> None]

\* No response received yet in this call.
NoResp == [stage |-> "none", http |-> "ok", body |-> "json", status |-> FALSE,
           fields |-> FALSE, data |-> "none", cid |-> FALSE]

\* A caller: pc is the request whose response it waits for ("idle": no call
\* yet, "done": the last call has ended with result res); op is the client
\* method called; id is the number of the call; auth is the state of the
\* pipeline run the call started ("none", "running", "ok": it returned True,
\* "failed": it raised or returned False); trace lists the pipeline requests
\* the call has sent; last describes the last response it has received;
\* pre is what the call found when it was made.
\* what device_info, handed to the entity's constructor, says of
\* properties.powerSwitch: 1, another value, or nothing
PowerInfos == {"on", "off", "absent"}

\* climate.py TclClimateEntity.__init__, lines 56-71.  turn is how the last
\* async_turn_on / async_turn_off left its handler, acked the last command
\* the cloud acknowledged.
ClimateInit(i) ==
  [is_on |-> FALSE, hvac_mode |-> "off", hvac_action |-> "off", info |-> i,
   turn |-> "none", acked |-> "none"]

IdleTask ==
  [pc |-> "idle", op |-> "none", res |-> "none", id |-> None, auth |-> "none",
   trace |-> <<>>, last |-> NoResp, pre |-> Pre(EmptyCreds, 0),
   reqs |-> <<>>, ctl |-> NoCtl, identity |-> "none", setup |-> "none",
   flow |-> "none", cmd |-> "none"]

Init ==
  /\ impl \in Impls
  /\ tz \in TzOffsets
  /\ (impl # "tcl" => tz = 0)
  /\ now = 0
  /\ nCalls = 0
  /\ creds = EmptyCreds
  /\ task = [t \in Tasks |-> IdleTask]
  /\ sig = NoSig
  /\ entity \in {ClimateInit(i) : i \in PowerInfos}
  /\ (impl = "tcl" => entity.info = "absent")

(* --------------------------- responses -------------------------------- *)

\* http: "ok" 2xx, "auth" 401 (or 403, where the two are not told apart),
\* "forbid" 403, "err" any other 4xx/5xx, "net" transport failure (no
\* response).  body: "json" a JSON object delivered as such,
\* "text" a body the HTTP library does not hand over as a JSON object.
LR(http, body, status, token, country, user) ==
  [http |-> http, body |-> body, status |-> status, token |-> token,
   country |-> country, user |-> user]

LoginResponses ==
  { LR("ok", "json", TRUE, TRUE, TRUE, TRUE),
    LR("ok", "json", FALSE, FALSE, FALSE, FALSE),
    LR("ok", "json", FALSE, TRUE, TRUE, TRUE),
    LR("ok", "json", TRUE, FALSE, TRUE, TRUE),
    LR("ok", "json", TRUE, TRUE, FALSE, TRUE),
    LR("ok", "json", TRUE, TRUE, TRUE, FALSE),
    LR("ok", "text", FALSE, FALSE, FALSE, FALSE),
    LR("auth", "json", FALSE, FALSE, FALSE, FALSE),
    LR("err", "json", FALSE, FALSE, FALSE, FALSE),
    LR("net", "json", FALSE, FALSE, FALSE, FALSE) }

\* jwt: what decoding the cognitoToken gives: "fresh" an exp claim in the
\* future, "expired" one in the past, "noexp" no exp claim, "malformed" not
\* a decodable token
FR(http, body, status, saas, cognito, cognitoId, jwt) ==
  [http |-> http, body |-> body, status |-> status, saas |-> saas,
   cognito |-> cognito, cognitoId |-> cognitoId, jwt |-> jwt]

RefreshResponses ==
  { FR("ok", "json", TRUE, TRUE, TRUE, TRUE, "fresh"),
    FR("ok", "json", TRUE, TRUE, TRUE, FALSE, "fresh"),
    FR("ok", "json", FALSE, FALSE, FALSE, FALSE, "fresh"),
    FR("ok", "json", FALSE, TRUE, TRUE, TRUE, "fresh"),
    FR("ok", "json", TRUE, FALSE, TRUE, TRUE, "fresh"),
    FR("ok", "json", TRUE, TRUE, FALSE, TRUE, "fresh"),
    FR("ok", "json", TRUE, TRUE, TRUE, TRUE, "expired"),
    FR("ok", "json", TRUE, TRUE, TRUE, TRUE, "noexp"),
    FR("ok", "json", TRUE, TRUE, TRUE, TRUE, "malformed"),
    FR("ok", "text", FALSE, FALSE, FALSE, FALSE, "fresh"),
    FR("auth", "json", FALSE, FALSE, FALSE, FALSE, "fresh"),
    FR("err", "json", FALSE, FALSE, FALSE, FALSE, "fresh"),
    FR("net", "json", FALSE, FALSE, FALSE, FALSE, "fresh") }

\* has: the "Credentials" key is there; ak sk st: its three keys; enc: the
\* encoding of "Expiration" ("iso" an ISO-8601 UTC string, "num" a UNIX
\* timestamp, "bad" any other value, "absent" no such key); life: minutes
\* from now to the expiry instant
AR(http, body, has, ak, sk, st, enc, life) ==
  [http |-> http, body |-> body, has |-> has, ak |-> ak, sk |-> sk,
   st |-> st, enc |-> enc, life |-> life]

AwsResponses ==
  { AR("ok", b, TRUE, TRUE, TRUE, TRUE, e, l) :
      b \in {"json"}, e \in {"iso", "num", "bad", "absent"}, l \in Lifetimes }
  \cup
  { AR("ok", "text", TRUE, TRUE, TRUE, TRUE, "num", Skew + 1),
    AR("ok", "json", TRUE, TRUE, TRUE, FALSE, "num", Skew + 1),
    AR("ok", "json", TRUE, FALSE, TRUE, TRUE, "num", Skew + 1),
    AR("ok", "json", FALSE, FALSE, FALSE, FALSE, "absent", Skew + 1),
    AR("auth", "json", FALSE, FALSE, FALSE, FALSE, "absent", Skew + 1),
    AR("err", "json", FALSE, FALSE, FALSE, FALSE, "absent", Skew + 1),
    AR("net", "json", FALSE, FALSE, FALSE, FALSE, "absent", Skew + 1) }

\* status: the vendor's code field is there with the success value; data:
\* the "data" key of the listing response: "none" missing, "empty" [],
\* "some" a non-empty list
DR(http, body, status, data) ==
  [http |-> http, body |-> body, status |-> status, data |-> data]

ListResponses ==
  { DR("ok", "json", TRUE, "some"),
    DR("ok", "json", TRUE, "empty"),
    DR("ok", "json", TRUE, "none"),
    DR("ok", "json", FALSE, "none"),
    DR("ok", "json", FALSE, "empty"),
    DR("ok", "json", FALSE, "some"),
    DR("ok", "text", FALSE, "none"),
    DR("auth", "json", FALSE, "none"),
    DR("forbid", "json", FALSE, "none"),
    DR("err", "json", FALSE, "none"),
    DR("net", "json", FALSE, "none") }

CtlResponses == {"ok", "auth", "err", "net"}


(* ---------------------- helpers on task records ----------------------- *)

\* the value a field takes from a response of pipeline run g
Val(present, g) == IF present THEN g ELSE None

\* a call of method op begins
NewCall(op) ==
  [pc |-> "idle", op |-> op, res |-> "none", id |-> nCalls + 1,
   auth |-> "none", trace |-> <<>>, last |-> NoResp, pre |-> Pre(creds, now),
   reqs |-> <<>>, ctl |-> NoCtl, identity |-> "none", setup |-> "none",
   flow |-> "none", cmd |-> "none"]

\* the task sends request req and waits for its response
Sent(tk, req) ==
  [tk EXCEPT !.pc = req,
             !.trace = IF req \in {"login", "refresh", "aws"}
                       THEN Append(@, req) ELSE @]

\* os.urandom(16).hex() and hashlib.md5(str(random.random())...).hexdigest()
\* in call g: a string no other call draws
Nonce(g) == <<"nonce", ToString(g)>>

\* the token string that run g stored in the client
Token(g) == <<"token", ToString(g)>>

\* the headers of a listing request that the signature covers
ListRequest(timestamp, nonce, token) ==
  [timestamp |-> timestamp, nonce |-> nonce, token |-> token,
   sign |-> LegacySign(timestamp, nonce, token)]

\* the task sends the listing request rq and waits for its response
SentList(tk, rq) == [Sent(tk, "list") EXCEPT !.reqs = Append(@, rq)]

\* the task sends the exchange request with IdentityId identity
\* ("returned": the id of the refresh response, "default": the built-in one)
SentAws(tk, identity) == [Sent(tk, "aws") EXCEPT !.identity = identity]

\* the task posts the control request rq and waits for the answer
SentCtl(tk, rq) == [Sent(tk, "ctl") EXCEPT !.ctl = rq]

\* the task has received response r to its stage request; fields records
\* whether r carries the fields the next stage's request is built from,
\* status whether its vendor status field has the success value (for the
\* exchange response, which has no such field: whether the three keys of
\* "Credentials" are there)
Saw(tk, stage, r, status, fields) ==
  [tk EXCEPT !.last = [stage |-> stage, http |-> r.http, body |-> r.body,
                       status |-> status, fields |-> fields, data |-> "none",
                       cid |-> FALSE]]

\* the task has received response r to its token-refresh request; data
\* records what the federated token of r decodes to, cid whether r carries
\* an identity id
SawRefresh(tk, r) ==
  [tk EXCEPT !.last = [stage |-> "refresh", http |-> r.http, body |-> r.body,
                       status |-> r.status, fields |-> r.cognito,
                       data |-> r.jwt, cid |-> r.cognitoId]]

\* the task has received response r to a listing request
SawList(tk, r) ==
  [tk EXCEPT !.last = [stage |-> "list", http |-> r.http, body |-> r.body,
                       status |-> r.status, fields |-> r.data # "none",
                       data |-> r.data, cid |-> FALSE]]

\* the task has received the answer r of the IoT endpoint to a control
\* request
SawCtl(tk, r) ==
  [tk EXCEPT !.last = [stage |-> "ctl", http |-> r, body |-> "json",
                       status |-> r = "ok", fields |-> FALSE, data |-> "none",
                       cid |-> FALSE]]

\* the call ends, returning or raising res; a pipeline run still going on
\* has failed
Ended(tk, res) ==
  [tk EXCEPT !.pc = "done", !.res = res,
             !.auth = IF @ = "running" THEN "failed" ELSE @]

\* the pipeline run of the call has returned True
AuthOk(tk) == [tk EXCEPT !.auth = "ok"]

InFlight(t) == task[t].pc \notin {"idle", "done"}

\* A caller that is not inside a call makes one.  The callers are
\* interchangeable, so the second one is used only while the first is
\* inside a call.
CanCall(t) == /\ ~InFlight(t)
              /\ nCalls < MaxCalls
              /\ (t = "b" => InFlight("a"))

(* ============== src/custom_components/tcl_ac/climate.py =============== *)

\* the hvac_mode property, lines 105-108
ClimateHvacMode(e) == e.hvac_mode

\* the hvac_action property, lines 118-125
ClimateHvacAction(e) == IF e.hvac_mode = "cool" THEN "cooling" ELSE "off"

\* lines 145-147 and 157-159: the three fields after command cmd
ClimatePower(e, cmd) ==
  IF cmd = "on"
  THEN [e EXCEPT !.is_on = TRUE, !.hvac_mode = "cool",
                 !.hvac_action = "cooling"]
  ELSE [e EXCEPT !.is_on = FALSE, !.hvac_mode = "off", !.hvac_action = "off"]

\* "except TclApiError" at lines 149 and 161 names the class climate.py
\* imports at line 16, the TclApiError of tcl_ac/api.py.  The TclApiError and
\* TclApiAuthError of src/api.py are other classes and pass through.
ClimateCatches(res) == impl = "ac" /\ res = "ApiError"

\* async_turn_on / async_turn_off after "await
\* self._api.async_control_device(...)" (lines 144, 156) came back as task tk
ClimateAfter(e, tk) ==
  IF tk.cmd = "none" \/ tk.pc # "done" THEN e
  ELSE IF tk.res = "ack"
       THEN [ClimatePower(e, tk.cmd) EXCEPT !.turn = "written",
                                            !.acked = tk.cmd]
  ELSE IF ClimateCatches(tk.res) THEN [e EXCEPT !.turn = "logged"]
  ELSE [e EXCEPT !.turn = "raised"]

\* async_update, lines 228-243
ClimateAsyncUpdate(e) ==
  IF e.info = "on" THEN ClimatePower(e, "on") ELSE ClimatePower(e, "off")

(* =========================== src/api.py =============================== *)

\* TclApi._request: what a response becomes ("pass": the body is returned)
RootRequest(http) ==
  CASE http = "net"  -> "ApiError"
    [] http \in {"auth", "forbid"} -> "AuthError"
    [] http = "err"  -> "ApiError"
    [] OTHER         -> "pass"

\* a login check that lets every JSON response through
RootLoginAcceptedAlways(r) == TRUE

\* line 124: not (not response_data or response_data.get("errorcode") != "0")
RootLoginAccepted(r) == r.status

\* async_do_account_auth, lines 122-135, on the login response r
RootLogin(c, r, g) ==
  IF RootRequest(r.http) # "pass" THEN [c |-> c, out |-> RootRequest(r.http)]
  ELSE IF r.body = "text" THEN [c |-> c, out |-> "AttributeError"]
  ELSE IF ~RootLoginAccepted(r) THEN [c |-> c, out |-> "AuthError"]
  ELSE LET c1 == [c EXCEPT !.sso = Val(r.token, g),
                           !.country = Val(r.country, g),
                           !.user = Val(r.user, g)]
       IN  IF c1.sso # None /\ c1.country # None /\ c1.user # None
           THEN [c |-> c1, out |-> "go"]
           ELSE [c |-> c1, out |-> "AuthError"]

\* a refresh check that lets every JSON response through
RootRefreshAcceptedAlways(r) == TRUE

\* line 161
RootRefreshAccepted(r) == r.status

\* lines 176-178: the decoded exp claim lies before now.  (jwt.decode with
\* verify_signature off does not check exp itself in PyJWT 2.)
RootCognitoExpired(jwt) == jwt = "expired"

\* async_refresh_tokens, lines 159-186, on the refresh response r
RootRefresh(c, r, g) ==
  IF RootRequest(r.http) # "pass" THEN [c |-> c, out |-> RootRequest(r.http)]
  ELSE IF r.body = "text" THEN [c |-> c, out |-> "AttributeError"]
  ELSE IF ~RootRefreshAccepted(r) THEN [c |-> c, out |-> "AuthError"]
  ELSE LET c1 == [c EXCEPT !.cognito = Val(r.cognito, g),
                           !.saas = Val(r.saas, g)]
       IN  IF c1.cognito = None \/ c1.saas = None
             THEN [c |-> c1, out |-> "AuthError"]
           ELSE CASE r.jwt = "malformed" -> [c |-> c1, out |-> "AuthError"]
                  [] r.jwt = "noexp"     -> [c |-> c1, out |-> "KeyError"]
                  [] RootCognitoExpired(r.jwt) -> [c |-> c1, out |-> "AuthError"]
                  [] OTHER               -> [c |-> c1, out |-> "go"]

\* async_get_aws_credentials, line 207: "IdentityId": HARDCODED_IDENTITY_ID
RootIdentityId(c) == "default"

\* async_get_aws_credentials, lines 213-229, on the exchange response r
RootAws(c, r, g, clock) ==
  IF RootRequest(r.http) # "pass" THEN [c |-> c, out |-> RootRequest(r.http)]
  ELSE IF ~r.has THEN [c |-> c, out |-> "ApiError"]
  ELSE IF r.body = "text" THEN [c |-> c, out |-> "TypeError"]
  ELSE LET c1 == [c EXCEPT !.aws = g, !.ak = Val(r.ak, g), !.sk = Val(r.sk, g),
                           !.st = Val(r.st, g), !.expEnc = r.enc,
                           !.expAt = clock + r.life]
       IN  IF c1.ak = None \/ c1.sk = None \/ c1.st = None
           THEN [c |-> c1, out |-> "ApiError"]
           ELSE [c |-> c1, out |-> "go"]

\* truth value of the dict self._aws_credentials (None and {} are false)
AwsDictTruthy(c) ==
  /\ c.aws # None
  /\ \/ c.ak # None \/ c.sk # None \/ c.st # None
     \/ c.expEnc \notin {"none", "absent"}

\* lines 233 and 238: not self._saas_token or not self._country_abbr
RootListNeedsAuth(c) == c.saas = None \/ c.country = None

\* lines 275 and 280: not self._aws_credentials
RootCtlNeedsAuth(c) == ~AwsDictTruthy(c)

\* async_get_devices, lines 241-260: timestamp, nonce, sign and the
\* accesstoken header of the listing request
RootListRequest(tk, c) == ListRequest(Millis(now), Nonce(tk.id), Token(c.saas))

\* async_get_devices from line 241 on: the listing request is sent
RootListGo(tk, c) == SentList(tk, RootListRequest(tk, c))

\* async_control_device, lines 300-303: the payload with its clientToken;
\* nothing is signed yet
RootPayload == [NoCtl EXCEPT !.clientToken = <<"mobile_">> \o Millis(now)]

\* an AWS4Auth for another service
RootAws4AuthOtherService(rq, st) ==
  [rq EXCEPT !.service = "execute-api", !.st = st]

\* _blocking_control_request, lines 308-314: AWS4Auth(access key, secret
\* key, AWS_IOT_REGION, 'iotdata', session_token=st) from the two keys
\* already read into rq and the session token st
RootAws4Auth(rq, st) == [rq EXCEPT !.service = "iotdata", !.st = st]

\* async_control_device from line 283 on: the payload is built and
\* _blocking_control_request is handed to the executor (line 333); its
\* thread has read nothing yet
RootCtlGo(tk, c) == [tk EXCEPT !.pc = "exec_ak", !.ctl = RootPayload]

\* The executor thread evaluates self._aws_credentials[key] (lines 309, 310,
\* 313), one argument of AWS4Auth after the other, while the event loop goes
\* on running the other callers.  A missing key raises KeyError, which
\* line 341 turns into TclApiError.
RootThreadRead(tk, c, key, next) ==
  IF c[key] = None THEN Ended(tk, "ApiError")
  ELSE [tk EXCEPT !.pc = next, !.ctl[key] = c[key]]

\* the caller's code after "await self.async_do_account_auth()" returned
RootAfterAuth(tk, c) ==
  CASE tk.op = "auth" -> Ended(tk, "ok")
    [] tk.op = "list" -> IF RootListNeedsAuth(c) THEN Ended(tk, "AuthError")
                         ELSE RootListGo(tk, c)
    [] OTHER          -> IF RootCtlNeedsAuth(c) THEN Ended(tk, "AuthError")
                         ELSE RootCtlGo(tk, c)

\* a caller starts a pipeline run: the login request is sent
StartRun(tk) == Sent([tk EXCEPT !.auth = "running"], "login")

\* config_flow: await api.async_do_account_auth()
RootCallAuth(t) ==
  /\ impl = "root" /\ CanCall(t)
  /\ task' = [task EXCEPT ![t] = StartRun(NewCall("auth"))]
  /\ nCalls' = nCalls + 1
  /\ UNCHANGED <<entity, sig, impl, tz, now, creds>>

\* async_get_devices, lines 231-262
RootCallGetDevices(t) ==
  /\ impl = "root" /\ CanCall(t)
  /\ IF RootListNeedsAuth(creds)
     THEN task' = [task EXCEPT ![t] = StartRun(NewCall("list"))]
     ELSE task' = [task EXCEPT ![t] = RootListGo(NewCall("list"), creds)]
  /\ nCalls' = nCalls + 1
  /\ UNCHANGED <<entity, sig, impl, tz, now, creds>>

\* async_control_device, lines 273-333
RootCallControl(t) ==
  /\ impl = "root" /\ CanCall(t)
  /\ IF RootCtlNeedsAuth(creds)
     THEN task' = [task EXCEPT ![t] = StartRun(NewCall("ctl"))]
     ELSE task' = [task EXCEPT ![t] = RootCtlGo(NewCall("ctl"), creds)]
  /\ nCalls' = nCalls + 1
  /\ UNCHANGED <<entity, sig, impl, tz, now, creds>>

\* The command of the entity, lines 144 and 156: TclApi of tcl_ac/api.py has
\* no attribute async_control_device, so with that client the lookup raises
\* AttributeError; TclApi of src/api.py runs async_control_device.
ClimateCall(tk, c) ==
  IF impl = "ac" THEN Ended(tk, "AttributeError")
  ELSE IF RootCtlNeedsAuth(c) THEN StartRun(tk)
  ELSE RootCtlGo(tk, c)

\* TclClimateEntity.async_turn_on, lines 137-150
ClimateTurnOn(t) ==
  /\ impl \in {"root", "ac"} /\ CanCall(t)
  /\ task' = [task EXCEPT ![t] =
                ClimateCall([NewCall("ctl") EXCEPT !.cmd = "on"], creds)]
  /\ entity' = ClimateAfter(entity, task'[t])
  /\ nCalls' = nCalls + 1
  /\ UNCHANGED <<sig, impl, tz, now, creds>>

\* TclClimateEntity.async_turn_off, lines 152-162
ClimateTurnOff(t) ==
  /\ impl \in {"root", "ac"} /\ CanCall(t)
  /\ task' = [task EXCEPT ![t] =
                ClimateCall([NewCall("ctl") EXCEPT !.cmd = "off"], creds)]
  /\ entity' = ClimateAfter(entity, task'[t])
  /\ nCalls' = nCalls + 1
  /\ UNCHANGED <<sig, impl, tz, now, creds>>

\* TclClimateEntity.async_update, lines 186-243; Home Assistant calls it
\* before the entity is added and at every poll
ClimateUpdate ==
  /\ impl \in {"root", "ac"}
  /\ entity' = ClimateAsyncUpdate(entity)
  /\ UNCHANGED <<sig, impl, tz, now, nCalls, creds, task>>

\* the login response arrives: lines 122-139, then 144-159 of
\* async_refresh_tokens up to its request
RootLoginResp(t) ==
  /\ impl = "root" /\ task[t].pc = "login"
  /\ \E r \in LoginResponses :
       LET h  == RootLogin(creds, r, task[t].id)
           tk == Saw(task[t], "login", r, r.status, r.token /\ r.user)
       IN  /\ creds' = h.c
           /\ task' = [task EXCEPT ![t] =
                         IF h.out = "go" THEN Sent(tk, "refresh")
                         ELSE Ended(tk, h.out)]
  /\ entity' = ClimateAfter(entity, task'[t])
  /\ UNCHANGED <<sig, impl, tz, now, nCalls>>

\* the refresh response arrives: lines 159-190, then 195-213 of
\* async_get_aws_credentials up to its request
RootRefreshResp(t) ==
  /\ impl = "root" /\ task[t].pc = "refresh"
  /\ \E r \in RefreshResponses :
       LET h  == RootRefresh(creds, r, task[t].id)
           tk == SawRefresh(task[t], r)
       IN  /\ creds' = h.c
           /\ task' = [task EXCEPT ![t] =
                         IF h.out = "go" THEN SentAws(tk, RootIdentityId(h.c))
                         ELSE Ended(tk, h.out)]
  /\ entity' = ClimateAfter(entity, task'[t])
  /\ UNCHANGED <<sig, impl, tz, now, nCalls>>

\* the exchange response arrives: lines 213-229, the returns at 191 and 140,
\* and the caller's code after the pipeline
RootAwsResp(t) ==
  /\ impl = "root" /\ task[t].pc = "aws"
  /\ \E r \in AwsResponses :
       LET h  == RootAws(creds, r, task[t].id, now)
           tk == Saw(task[t], "aws", r, r.ak /\ r.sk /\ r.st, r.has)
       IN  /\ creds' = h.c
           /\ task' = [task EXCEPT ![t] =
                         IF h.out = "go" THEN RootAfterAuth(AuthOk(tk), h.c)
                         ELSE Ended(tk, h.out)]
  /\ entity' = ClimateAfter(entity, task'[t])
  /\ UNCHANGED <<sig, impl, tz, now, nCalls>>

\* async_get_devices, lines 262-271, on the listing response r
RootList(r) ==
  IF RootRequest(r.http) # "pass" THEN RootRequest(r.http)
  ELSE IF r.body = "text" THEN "AttributeError"
  ELSE IF ~r.status THEN "ApiError"
  ELSE IF r.data = "some" THEN "devices" ELSE "empty"

RootListResp(t) ==
  /\ impl = "root" /\ task[t].pc = "list"
  /\ \E r \in ListResponses :
       task' = [task EXCEPT ![t] = Ended(SawList(@, r), RootList(r))]
  /\ UNCHANGED <<entity, sig, impl, tz, now, nCalls, creds>>

\* a control call that reports success whatever the endpoint answered
RootCtlAlwaysAck(r) == "ack"

\* async_control_device, lines 328-343, on the answer r of the IoT endpoint
RootCtl(r) ==
  CASE r = "ok"   -> "ack"
    [] r = "auth" -> "AuthError"
    [] OTHER      -> "ApiError"

\* the thread reads self._aws_credentials["AccessKeyId"] (line 309)
RootThreadAccessKey(t) ==
  /\ impl = "root" /\ task[t].pc = "exec_ak"
  /\ task' = [task EXCEPT ![t] = RootThreadRead(@, creds, "ak", "exec_sk")]
  /\ entity' = ClimateAfter(entity, task'[t])
  /\ UNCHANGED <<sig, impl, tz, now, nCalls, creds>>

\* the thread reads self._aws_credentials["SecretKey"] (line 310)
RootThreadSecretKey(t) ==
  /\ impl = "root" /\ task[t].pc = "exec_sk"
  /\ task' = [task EXCEPT ![t] = RootThreadRead(@, creds, "sk", "exec_st")]
  /\ entity' = ClimateAfter(entity, task'[t])
  /\ UNCHANGED <<sig, impl, tz, now, nCalls, creds>>

\* the thread reads self._aws_credentials["SessionToken"] (line 313), builds
\* the AWS4Auth and posts the request (line 324)
RootThreadPost(t) ==
  /\ impl = "root" /\ task[t].pc = "exec_st"
  /\ task' = [task EXCEPT ![t] =
                IF creds.st = None THEN Ended(@, "ApiError")
                ELSE SentCtl(@, RootAws4Auth(@.ctl, creds.st))]
  /\ entity' = ClimateAfter(entity, task'[t])
  /\ UNCHANGED <<sig, impl, tz, now, nCalls, creds>>

RootCtlResp(t) ==
  /\ impl = "root" /\ task[t].pc = "ctl"
  /\ \E r \in CtlResponses :
       task' = [task EXCEPT ![t] = Ended(SawCtl(@, r), RootCtl(r))]
  /\ entity' = ClimateAfter(entity, task'[t])
  /\ UNCHANGED <<sig, impl, tz, now, nCalls, creds>>

\* a cancellation that lands after the first assignment of the stage
RootAtCancelHalfWritten(c, tk) ==
  CASE tk.pc = "login"   -> [c EXCEPT !.sso = tk.id]
    [] tk.pc = "refresh" -> [c EXCEPT !.cognito = tk.id]
    [] OTHER             -> [c EXCEPT !.aws = tk.id]

\* The fields after the caller's task is cancelled while it waits in
\* _request (lines 70-84) for the response of stage tk.pc.
\* asyncio.CancelledError is raised at that await and is none of the
\* exceptions caught at lines 88-98, so the assignments that follow the
\* await of the stage (lines 129-131, 167-168, 223-224) are not reached.
RootAtCancel(c, tk) == c

\* the task of caller t is cancelled while a stage's request is in flight
RootCancel(t) ==
  /\ impl = "root" /\ task[t].pc \in {"login", "refresh", "aws"}
  /\ creds' = RootAtCancel(creds, task[t])
  /\ task' = [task EXCEPT ![t] = Ended(@, "Cancelled")]
  /\ entity' = ClimateAfter(entity, task'[t])
  /\ UNCHANGED <<sig, impl, tz, now, nCalls>>

(* ================ src/custom_components/tcl_ac/api.py ================= *)

\* TclApi._request, lines 72-132: every HTTP status >= 400 and every
\* transport failure becomes TclApiError
AcRequest(http) == IF http = "ok" THEN "pass" ELSE "ApiError"

\* authenticate, lines 138-143: "if not await self._stage(): return False"
AcGate(ret) == ~ret

\* line 170: response and response.get("status") == 1 and "token" in response
AcLoginAccepted(r) == r.status /\ r.token

\* _do_account_auth, lines 168-180, on the login response r
AcLogin(c, r, g) ==
  IF AcRequest(r.http) # "pass" THEN [c |-> c, out |-> "AuthError"]
  ELSE IF r.body = "text" THEN [c |-> c, out |-> "AttributeError"]
  ELSE IF ~AcLoginAccepted(r) THEN [c |-> c, out |-> "AuthError"]
  ELSE [c |-> [c EXCEPT !.sso = Val(r.token, g),
                        !.country = Val(r.country, g),
                        !.user = Val(r.user, g)],
        out |-> "go"]

\* line 200: response and response.get("code") == 0 and "data" in response
AcRefreshAccepted(r) == r.status

\* an expiry check that finds no token expired
AcCognitoExpiredNever(jwt) == FALSE

\* lines 212-214: the decoded exp claim lies before now
AcCognitoExpired(jwt) == jwt = "expired"

\* _refresh_tokens, lines 199-227, on the refresh response r
AcRefresh(c, r, g) ==
  IF AcRequest(r.http) # "pass" THEN [c |-> c, out |-> "AuthError"]
  ELSE IF r.body = "text" THEN [c |-> c, out |-> "AttributeError"]
  ELSE IF ~AcRefreshAccepted(r) THEN [c |-> c, out |-> "AuthError"]
  ELSE LET c1 == [c EXCEPT !.saas = Val(r.saas, g),
                           !.cognito = Val(r.cognito, g),
                           !.cognitoId = Val(r.cognitoId, g)]
       IN  IF c1.saas = None \/ c1.cognito = None
             THEN [c |-> c1, out |-> "AuthError"]
           ELSE CASE r.jwt = "noexp"   -> [c |-> c1, out |-> "KeyError"]
                  [] AcCognitoExpired(r.jwt) -> [c |-> c1, out |-> "AuthError"]
                  [] OTHER             -> [c |-> c1, out |-> "go"]

\* an exchange stage that does not check the three fields it stored
AcAwsUnchecked(c, r, g, clock) ==
  IF AcRequest(r.http) # "pass" THEN [c |-> c, out |-> "AuthError"]
  ELSE IF ~r.has THEN [c |-> c, out |-> "AuthError"]
  ELSE [c |-> [c EXCEPT !.ak = Val(r.ak, g), !.sk = Val(r.sk, g),
                        !.st = Val(r.st, g), !.expAt = clock + r.life],
        out |-> "go"]

\* _get_aws_credentials, lines 261-306, on the exchange response r; the
\* expiry of the response is not stored by this client (expAt records it)
AcAws(c, r, g, clock) ==
  IF AcRequest(r.http) # "pass" THEN [c |-> c, out |-> "AuthError"]
  ELSE IF ~r.has THEN [c |-> c, out |-> "AuthError"]
  ELSE LET c1 == [c EXCEPT !.ak = Val(r.ak, g), !.sk = Val(r.sk, g),
                           !.st = Val(r.st, g), !.expAt = clock + r.life]
       IN  IF c1.ak = None \/ c1.sk = None \/ c1.st = None
           THEN [c |-> c1, out |-> "AuthError"]
           ELSE [c |-> c1, out |-> "go"]

\* _get_aws_credentials, lines 238 and 251:
\* identity_id_to_use = HARDCODED_IDENTITY_ID, whatever self._cognito_id is
AcIdentityId(c) == "default"

\* authenticate, lines 142-145, and _get_aws_credentials up to its request
\* (lines 231-261)
AcEnterAws(tk, c) ==
  IF c.cognito # None THEN SentAws(tk, AcIdentityId(c))
  ELSE IF AcGate(FALSE) THEN Ended(tk, "false")
  ELSE Ended(AuthOk(tk), "ok")

\* authenticate, lines 140-141, and _refresh_tokens up to its request
\* (lines 184-199)
AcEnterRefresh(tk, c) ==
  IF c.sso # None /\ c.user # None THEN Sent(tk, "refresh")
  ELSE IF AcGate(FALSE) THEN Ended(tk, "false")
  ELSE AcEnterAws(tk, c)

\* get_devices, lines 314-331: timestamp, nonce, sign and the accesstoken
\* header of the listing request
AcListRequest(tk, c) == ListRequest(Millis(now), Nonce(tk.id), Token(c.saas))

\* get_devices, lines 308-333: None without tokens, else the listing request
AcListGo(tk, c) ==
  IF c.saas = None \/ c.country = None THEN Ended(tk, "null")
  ELSE SentList(tk, AcListRequest(tk, c))

\* the caller's code after authenticate() returned True: async_step_user of
\* the config flow goes on to get_devices (config_flow.py:50-61)
AcAfterAuth(tk, c) ==
  IF tk.op = "flow" THEN AcListGo(tk, c) ELSE Ended(tk, "ok")

\* tcl_ac/__init__.py async_setup_entry, lines 34-81, on the outcome res of
\* authenticate().  The ConfigEntryAuthFailed raised at line 40 for a False
\* result is raised inside the try block; it is neither TclAuthenticationError
\* nor TclApiError, so the handler "except Exception" (line 50) catches it
\* and raises ConfigEntryNotReady.
AcSetupResult(res) ==
  CASE res = "ok"        -> "True"
    [] res = "false"     -> "NotReady"
    [] res = "AuthError" -> "AuthFailed"
    [] res = "ApiError"  -> "NotReady"
    [] OTHER             -> "NotReady"

\* config_flow.py async_step_select_devices(None), lines 110-159, with
\* devices to choose from: building the schema evaluates cv.multi_select
\* (line 148), and the module imports no name cv (lines 2-12): NameError
AcStepSelectDevices == "NameError"

\* config_flow.py async_step_user, lines 47-104, on the outcome of
\* authenticate() and, where it returned True, of get_devices(): the form
\* the step returns.  async_step_select_devices is called inside the try
\* block (line 73), so what it raises is handled at lines 84-92.
AcFlowResult(tk) ==
  LET err(e) == CASE e = "AuthError" -> "user_form_invalid_auth"
                  [] e = "ApiError"  -> "user_form_cannot_connect"
                  [] OTHER           -> "user_form_unknown"
  IN  IF tk.auth # "ok"
      THEN IF tk.res = "false" THEN "user_form_invalid_auth" ELSE err(tk.res)
      ELSE CASE tk.res = "devices" ->
                  IF AcStepSelectDevices = "form" THEN "select_devices_form"
                  ELSE err(AcStepSelectDevices)
             [] tk.res \in {"empty", "null"} -> "user_form_no_devices_found"
             [] OTHER -> err(tk.res)

\* authenticate() or get_devices() has returned or raised: a call made by
\* async_setup_entry or by async_step_user goes on with that handler
AcReturn(tk) ==
  IF tk.pc # "done" THEN tk
  ELSE CASE tk.op = "setup" -> [tk EXCEPT !.setup = AcSetupResult(tk.res)]
         [] tk.op = "flow"  -> [tk EXCEPT !.flow = AcFlowResult(tk)]
         [] OTHER           -> tk

\* tcl_ac/__init__.py async_setup_entry, lines 16-36: a new client is built
\* and authenticate() is called
AcAsyncSetupEntry(t) ==
  /\ impl = "ac" /\ CanCall(t)
  /\ nCalls = 0 /\ creds = EmptyCreds
  /\ task' = [task EXCEPT ![t] = StartRun(NewCall("setup"))]
  /\ nCalls' = nCalls + 1
  /\ UNCHANGED <<entity, sig, impl, tz, now, creds>>

\* config_flow.py async_step_user, lines 35-49, with user input: a new
\* client is built and authenticate() is called
AcAsyncStepUser(t) ==
  /\ impl = "ac" /\ CanCall(t)
  /\ nCalls = 0 /\ creds = EmptyCreds
  /\ task' = [task EXCEPT ![t] = StartRun(NewCall("flow"))]
  /\ nCalls' = nCalls + 1
  /\ UNCHANGED <<entity, sig, impl, tz, now, creds>>

\* __init__.async_setup_entry, config_flow: await api.authenticate()
AcCallAuth(t) ==
  /\ impl = "ac" /\ CanCall(t)
  /\ task' = [task EXCEPT ![t] = StartRun(NewCall("auth"))]
  /\ nCalls' = nCalls + 1
  /\ UNCHANGED <<entity, sig, impl, tz, now, creds>>

AcLoginResp(t) ==
  /\ impl = "ac" /\ task[t].pc = "login"
  /\ \E r \in LoginResponses :
       LET h  == AcLogin(creds, r, task[t].id)
           tk == Saw(task[t], "login", r, r.status, r.token /\ r.user)
       IN  /\ creds' = h.c
           /\ task' = [task EXCEPT ![t] = AcReturn(
                         IF h.out # "go" THEN Ended(tk, h.out)
                         ELSE IF AcGate(TRUE) THEN Ended(tk, "false")
                         ELSE AcEnterRefresh(tk, h.c))]
  /\ UNCHANGED <<entity, sig, impl, tz, now, nCalls>>

AcRefreshResp(t) ==
  /\ impl = "ac" /\ task[t].pc = "refresh"
  /\ \E r \in RefreshResponses :
       LET h  == AcRefresh(creds, r, task[t].id)
           tk == SawRefresh(task[t], r)
       IN  /\ creds' = h.c
           /\ task' = [task EXCEPT ![t] = AcReturn(
                         IF h.out # "go" THEN Ended(tk, h.out)
                         ELSE IF AcGate(TRUE) THEN Ended(tk, "false")
                         ELSE AcEnterAws(tk, h.c))]
  /\ UNCHANGED <<entity, sig, impl, tz, now, nCalls>>

AcAwsResp(t) ==
  /\ impl = "ac" /\ task[t].pc = "aws"
  /\ \E r \in AwsResponses :
       LET h  == AcAws(creds, r, task[t].id, now)
           tk == Saw(task[t], "aws", r, r.ak /\ r.sk /\ r.st, r.has)
       IN  /\ creds' = h.c
           /\ task' = [task EXCEPT ![t] = AcReturn(
                         IF h.out # "go" THEN Ended(tk, h.out)
                         ELSE IF AcGate(TRUE) THEN Ended(tk, "false")
                         ELSE AcAfterAuth(AuthOk(tk), h.c))]
  /\ UNCHANGED <<entity, sig, impl, tz, now, nCalls>>

\* get_devices, lines 308-333: None without tokens, else the listing request
AcCallGetDevices(t) ==
  /\ impl = "ac" /\ CanCall(t)
  /\ task' = [task EXCEPT ![t] =
                AcListGo(NewCall("list"), creds)]
  /\ nCalls' = nCalls + 1
  /\ UNCHANGED <<entity, sig, impl, tz, now, creds>>

\* a listing check that takes an empty "data" list for a missing one
AcListTruthy(r) ==
  IF AcRequest(r.http) # "pass" THEN "ApiError"
  ELSE IF r.body = "text" THEN "AttributeError"
  ELSE IF r.status /\ r.data = "some" THEN "devices"
  ELSE "ApiError"

\* get_devices, lines 333-341, on the listing response r
AcList(r) ==
  IF AcRequest(r.http) # "pass" THEN "ApiError"
  ELSE IF r.body = "text" THEN "AttributeError"
  ELSE IF r.status /\ r.data # "none"
       THEN (IF r.data = "some" THEN "devices" ELSE "empty")
  ELSE "ApiError"

AcListResp(t) ==
  /\ impl = "ac" /\ task[t].pc = "list"
  /\ \E r \in ListResponses :
       task' = [task EXCEPT ![t] = AcReturn(Ended(SawList(@, r), AcList(r)))]
  /\ UNCHANGED <<entity, sig, impl, tz, now, nCalls, creds>>

\* control_device, lines 358-390: the clientToken of the payload and the
\* arguments of AWS4Auth
AcCtlRequest(c) ==
  [clientToken |-> <<"homeassistant_">> \o Millis(now), service |-> "iotdata",
   ak |-> c.ak, sk |-> c.sk, st |-> c.st]

\* control_device, lines 343-424: TclApiError without the three fields, else
\* the signed request
AcCallControl(t) ==
  /\ impl = "ac" /\ CanCall(t)
  /\ task' = [task EXCEPT ![t] =
                IF creds.ak = None \/ creds.sk = None \/ creds.st = None
                THEN Ended(NewCall("ctl"), "ApiError")
                ELSE SentCtl(NewCall("ctl"), AcCtlRequest(creds))]
  /\ nCalls' = nCalls + 1
  /\ UNCHANGED <<entity, sig, impl, tz, now, creds>>

\* control_device, lines 429-444, on the answer r of the IoT endpoint
AcCtl(r) == IF r = "ok" THEN "ack" ELSE "ApiError"

AcCtlResp(t) ==
  /\ impl = "ac" /\ task[t].pc = "ctl"
  /\ \E r \in CtlResponses :
       task' = [task EXCEPT ![t] = Ended(SawCtl(@, r), AcCtl(r))]
  /\ UNCHANGED <<entity, sig, impl, tz, now, nCalls, creds>>

\* The fields after the caller's task is cancelled while it waits in
\* _request (lines 75-120) for the response of stage tk.pc.
\* asyncio.CancelledError is no Exception: neither the handlers of _request
\* (127-132) nor those of the stages (178, 225, 301, 304) catch it, and the
\* assignments that follow the await of the stage are not reached.
AcAtCancel(c, tk) == c

\* the task of caller t is cancelled while a stage's request is in flight
AcCancel(t) ==
  /\ impl = "ac" /\ task[t].pc \in {"login", "refresh", "aws"}
  /\ creds' = AcAtCancel(creds, task[t])
  /\ task' = [task EXCEPT ![t] = Ended(@, "Cancelled")]
  /\ UNCHANGED <<entity, sig, impl, tz, now, nCalls>>

(* ================== src/custom_components/tcl/api.py ================== *)

\* datetime.datetime.min, the value _parse_expiration returns for an
\* expiry it cannot parse (lines 125 and 128); below every clock value
DatetimeMin == 0 - 1000000

\* raise_for_status() and the transport: requests.exceptions.RequestException
\* for every HTTP status >= 400 and every transport failure
TclRequestFails(http) == http # "ok"

\* authenticate, lines 45-76, on the login response r: nothing is stored.
\* A body that is no JSON makes response.json() raise
\* requests.exceptions.JSONDecodeError, a RequestException.
TclLogin(c, r, g) ==
  IF TclRequestFails(r.http) THEN [c |-> c, out |-> "AuthError"]
  ELSE IF r.body = "text" THEN [c |-> c, out |-> "AuthError"]
  ELSE IF ~r.user \/ ~r.token THEN [c |-> c, out |-> "KeyError"]
  ELSE [c |-> c, out |-> "go"]

\* authenticate, lines 77-99, on the refresh response r
TclRefresh(c, r, g) ==
  IF TclRequestFails(r.http) THEN [c |-> c, out |-> "AuthError"]
  ELSE IF r.body = "text" THEN [c |-> c, out |-> "AuthError"]
  ELSE IF ~r.saas THEN [c |-> c, out |-> "KeyError"]
  ELSE LET c1 == [c EXCEPT !.saas = g]
       IN  IF ~r.cognitoId \/ ~r.cognito THEN [c |-> c1, out |-> "KeyError"]
           ELSE [c |-> c1, out |-> "go"]

\* authenticate, line 94: "IdentityId": refresh_data["data"]["cognitoId"]
\* (the request is built only when r has the key, see TclRefresh)
TclIdentityId(r) == "returned"

\* authenticate, lines 100-113, on the exchange response r
TclAws(c, r, g, clock) ==
  IF TclRequestFails(r.http) THEN [c |-> c, out |-> "AuthError"]
  ELSE IF ~r.has THEN [c |-> c, out |-> "KeyError"]
  ELSE LET c1 == [c EXCEPT !.aws = g, !.ak = Val(r.ak, g), !.sk = Val(r.sk, g),
                           !.st = Val(r.st, g), !.expEnc = r.enc,
                           !.expAt = clock + r.life]
       IN  IF c1.ak = None \/ c1.expEnc = "absent"
           THEN [c |-> c1, out |-> "KeyError"]
           ELSE [c |-> c1, out |-> "go"]

\* _parse_expiration, lines 115-128: the naive datetime the stored expiry
\* parses to.  strptime reads an ISO string as it stands (UTC);
\* fromtimestamp turns a UNIX timestamp into the host's local time.
TclParseExpiration(enc, at) ==
  CASE enc = "iso" -> at
    [] enc = "num" -> at + tz
    [] OTHER       -> DatetimeMin

\* line 140: expiration - buffer < datetime.datetime.utcnow()
TclExpired(expiration, clock) == expiration - Skew < clock

\* _validate_credentials, lines 130-148: "auth" when it calls authenticate(),
\* "pass" when it returns without, else the exception it raises
TclValidate(c, clock) ==
  IF c.saas = None THEN "auth"
  ELSE IF ~AwsDictTruthy(c) THEN "pass"
  ELSE IF c.expEnc = "absent" THEN "KeyError"
  ELSE LET expiration == TclParseExpiration(c.expEnc, c.expAt)
       IN  IF expiration = DatetimeMin THEN "OverflowError"
           ELSE IF TclExpired(expiration, clock) THEN "auth"
           ELSE "pass"

\* get_devices, lines 166-196: timestamp, nonce, sign and the accesstoken
\* header of the first listing request
TclListRequest(tk, c) == ListRequest(Millis(now), Nonce(tk.id), Token(c.saas))

\* get_devices, lines 238-242: the headers of the first request are sent
\* again with "timestamp" replaced by the clock in seconds
TclRetryRequest(rq) == [rq EXCEPT !.timestamp = Seconds(now)]

\* get_devices, lines 156-214, after _validate_credentials returned: the
\* reads of self._aws_credentials, then the listing request
TclListGo(tk, c) ==
  IF c.aws = None THEN Ended(tk, "TypeError")
  ELSE IF c.ak = None \/ c.expEnc = "absent" \/ c.st = None
    THEN Ended(tk, "KeyError")
  ELSE SentList(tk, TclListRequest(tk, c))

\* control_device, lines 255-270: the request's arguments are evaluated
\* first; the module never imports time, so int(time.time() * 1000) raises
\* NameError before anything is posted
TclCtlGo(tk, c) ==
  IF c.aws = None THEN Ended(tk, "TypeError")
  ELSE IF c.st = None THEN Ended(tk, "KeyError")
  ELSE Ended(tk, "NameError")

\* the caller's code after authenticate() returned True
TclAfterAuth(tk, c) ==
  CASE tk.op = "auth" -> Ended(tk, "ok")
    [] tk.op \in {"list", "setup"} -> TclListGo(tk, c)
    [] OTHER          -> TclCtlGo(tk, c)

\* tcl/__init__.py async_setup_entry, lines 23-35, on the outcome res of the
\* coordinator's first refresh (coordinator.py:34-43: the list get_devices
\* returned becomes coordinator.data, an exception is passed on): "True"
\* when it returns True, "NotReady" when it raises ConfigEntryNotReady
TclSetupResult(res) ==
  IF res \notin {"devices", "empty"} THEN "NotReady"
  ELSE IF res = "empty" THEN "NotReady"
  ELSE "True"

\* get_devices has returned or raised: a call made by async_setup_entry
\* goes on with lines 25-35 of tcl/__init__.py
TclReturn(tk) ==
  IF tk.op = "setup" /\ tk.pc = "done"
  THEN [tk EXCEPT !.setup = TclSetupResult(tk.res)]
  ELSE tk

\* tcl/__init__.py async_setup_entry, lines 19-24: a coordinator with a new
\* client is built (coordinator.py:20-32) and its first refresh calls
\* get_devices
TclAsyncSetupEntry(t) ==
  /\ impl = "tcl" /\ CanCall(t)
  /\ nCalls = 0 /\ creds = EmptyCreds
  /\ LET v == TclValidate(creds, now)
     IN  task' = [task EXCEPT ![t] =
                    TclReturn(CASE v = "auth" -> StartRun(NewCall("setup"))
                                [] v = "pass" -> TclListGo(NewCall("setup"), creds)
                                [] OTHER      -> Ended(NewCall("setup"), v))]
  /\ nCalls' = nCalls + 1
  /\ UNCHANGED <<entity, sig, impl, tz, now, creds>>

TclCallAuth(t) ==
  /\ impl = "tcl" /\ CanCall(t)
  /\ task' = [task EXCEPT ![t] = StartRun(NewCall("auth"))]
  /\ nCalls' = nCalls + 1
  /\ UNCHANGED <<entity, sig, impl, tz, now, creds>>

\* get_devices, lines 150-214
TclCallGetDevices(t) ==
  /\ impl = "tcl" /\ CanCall(t)
  /\ LET v == TclValidate(creds, now)
     IN  task' = [task EXCEPT ![t] =
                    CASE v = "auth" -> StartRun(NewCall("list"))
                      [] v = "pass" -> TclListGo(NewCall("list"), creds)
                      [] OTHER      -> Ended(NewCall("list"), v)]
  /\ nCalls' = nCalls + 1
  /\ UNCHANGED <<entity, sig, impl, tz, now, creds>>

\* control_device, lines 250-270
TclCallControl(t) ==
  /\ impl = "tcl" /\ CanCall(t)
  /\ task' = [task EXCEPT ![t] =
                IF creds.saas = None THEN StartRun(NewCall("ctl"))
                ELSE TclCtlGo(NewCall("ctl"), creds)]
  /\ nCalls' = nCalls + 1
  /\ UNCHANGED <<entity, sig, impl, tz, now, creds>>

TclLoginResp(t) ==
  /\ impl = "tcl" /\ task[t].pc = "login"
  /\ \E r \in LoginResponses :
       LET h  == TclLogin(creds, r, task[t].id)
           tk == Saw(task[t], "login", r, r.status, r.token /\ r.user)
       IN  /\ creds' = h.c
           /\ task' = [task EXCEPT ![t] = TclReturn(
                         IF h.out = "go" THEN Sent(tk, "refresh")
                         ELSE Ended(tk, h.out))]
  /\ UNCHANGED <<entity, sig, impl, tz, now, nCalls>>

TclRefreshResp(t) ==
  /\ impl = "tcl" /\ task[t].pc = "refresh"
  /\ \E r \in RefreshResponses :
       LET h  == TclRefresh(creds, r, task[t].id)
           tk == SawRefresh(task[t], r)
       IN  /\ creds' = h.c
           /\ task' = [task EXCEPT ![t] = TclReturn(
                         IF h.out = "go" THEN SentAws(tk, TclIdentityId(r))
                         ELSE Ended(tk, h.out))]
  /\ UNCHANGED <<entity, sig, impl, tz, now, nCalls>>

TclAwsResp(t) ==
  /\ impl = "tcl" /\ task[t].pc = "aws"
  /\ \E r \in AwsResponses :
       LET h  == TclAws(creds, r, task[t].id, now)
           tk == Saw(task[t], "aws", r, r.ak /\ r.sk /\ r.st, r.has)
       IN  /\ creds' = h.c
           /\ task' = [task EXCEPT ![t] = TclReturn(
                         IF h.out = "go" THEN TclAfterAuth(AuthOk(tk), h.c)
                         ELSE Ended(tk, h.out))]
  /\ UNCHANGED <<entity, sig, impl, tz, now, nCalls>>

\* a first listing request that is sent again after any HTTP error
TclListRetryAny(r) ==
  IF r.http \in {"forbid", "auth", "err"} THEN "retry"
  ELSE IF r.http # "ok" THEN "ApiError"
  ELSE IF r.body = "text" THEN "ApiError"
  ELSE IF r.data = "some" THEN "devices" ELSE "empty"

\* get_devices, lines 214-248, on the answer r to the first listing
\* request: "retry" when the request is sent again (line 239)
TclList(r) ==
  IF r.http = "forbid" THEN "retry"
  ELSE IF r.http # "ok" THEN "ApiError"
  ELSE IF r.body = "text" THEN "ApiError"
  ELSE IF r.data = "some" THEN "devices" ELSE "empty"

\* get_devices, lines 239-248, on the answer r to the second listing request
TclList2(r) ==
  IF r.http # "ok" THEN "ApiError"
  ELSE IF r.body = "text" THEN "ApiError"
  ELSE IF r.data = "some" THEN "devices" ELSE "empty"

TclListResp(t) ==
  /\ impl = "tcl" /\ task[t].pc = "list"
  /\ \E r \in ListResponses :
       task' = [task EXCEPT ![t] = TclReturn(
                  IF TclList(r) = "retry"
                  THEN [Sent(SawList(@, r), "list2") EXCEPT
                          !.reqs = Append(@, TclRetryRequest(@[Len(@)]))]
                  ELSE Ended(SawList(@, r), TclList(r)))]
  /\ UNCHANGED <<entity, sig, impl, tz, now, nCalls, creds>>

TclList2Resp(t) ==
  /\ impl = "tcl" /\ task[t].pc = "list2"
  /\ \E r \in ListResponses :
       task' = [task EXCEPT ![t] = TclReturn(Ended(SawList(@, r), TclList2(r)))]
  /\ UNCHANGED <<entity, sig, impl, tz, now, nCalls, creds>>

(* ------------------------------ clock --------------------------------- *)

Tick ==
  /\ now < MaxTime
  /\ now' = now + 1
  /\ UNCHANGED <<entity, sig, impl, tz, nCalls, creds, task>>

\* the steps of caller t on a client of src/api.py
RootStep(t) ==
  \/ RootCallAuth(t) \/ RootCallGetDevices(t) \/ RootCallControl(t)
  \/ RootLoginResp(t) \/ RootRefreshResp(t) \/ RootAwsResp(t)
  \/ RootListResp(t) \/ RootCtlResp(t) \/ RootCancel(t)
  \/ RootThreadAccessKey(t) \/ RootThreadSecretKey(t) \/ RootThreadPost(t)

\* the steps of caller t on a client of tcl_ac/api.py
AcStep(t) ==
  \/ AcCallAuth(t) \/ AcCallGetDevices(t) \/ AcCallControl(t)
  \/ AcLoginResp(t) \/ AcRefreshResp(t) \/ AcAwsResp(t)
  \/ AcListResp(t) \/ AcCtlResp(t) \/ AcCancel(t)
  \/ AcAsyncSetupEntry(t) \/ AcAsyncStepUser(t)

\* the steps of caller t on a client of tcl/api.py
TclStep(t) ==
  \/ TclCallAuth(t) \/ TclCallGetDevices(t) \/ TclCallControl(t)
  \/ TclLoginResp(t) \/ TclRefreshResp(t) \/ TclAwsResp(t)
  \/ TclListResp(t) \/ TclList2Resp(t) \/ TclAsyncSetupEntry(t)

\* One caller: each call ends before the next is made.
Next ==
  \/ Tick
  \/ RootStep("a") \/ AcStep("a") \/ TclStep("a")
  \/ ClimateTurnOn("a") \/ ClimateTurnOff("a") \/ ClimateUpdate

Spec == Init /\ [][Next]_vars

\* Two callers of one asyncio client (src/api.py, tcl_ac/api.py), interleaved
\* at the awaits.
InitConc == Init /\ impl \in {"root", "ac"} /\ entity.info = "absent"

NextConc == \E t \in Tasks : RootStep(t) \/ AcStep(t)

SpecConc == InitConc /\ [][NextConc]_vars

(* -------------------- the request signature alone -------------------- *)

\* the characters and the strings the signature is computed from
SignChars == {"0", "1"}
Strs == UNION {[1..n -> SignChars] : n \in 1..MaxStr}

\* a timestamp, a nonce and a token, not signed yet
InitSign ==
  /\ impl \in {"root", "ac"}
  /\ tz = 0
  /\ now = 0
  /\ nCalls = 0
  /\ creds = EmptyCreds
  /\ task = [t \in Tasks |-> IdleTask]
  /\ sig \in [timestamp : Strs, nonce : Strs, token : Strs, sign : {<<>>}]
  /\ entity = ClimateInit("absent")

\* sign = calculate_md5_hash_bytes(timestamp + nonce + token)
Sign ==
  /\ sig.sign = <<>>
  /\ sig' = [sig EXCEPT !.sign = LegacySign(sig.timestamp, sig.nonce, sig.token)]
  /\ UNCHANGED <<impl, tz, now, nCalls, creds, task, entity>>

SpecSign == InitSign /\ [][Sign]_vars

(* ============================== claims ================================ *)

\* the three stage requests of a pipeline run, in order
StageOrder == <<"login", "refresh", "aws">>

IsPrefix(p, q) ==
  /\ Len(p) <= Len(q)
  /\ \A i \in 1..Len(p) : p[i] = q[i]

\* the stage succeeded: its response was a 2xx JSON object with the vendor's
\* success status, carrying the fields the next stage needs
RespOk(l) == l.http = "ok" /\ l.body = "json" /\ l.status /\ l.fields

\* the response was a 2xx JSON object whose vendor status is not success
BadStatus(l) == l.http = "ok" /\ l.body = "json" /\ ~l.status

\* no credential field holds a value stored by call number n
NothingFrom(n) == \A f \in TokenFields : creds[f] # n

\* the pipeline run started by caller t has failed
RunFailed(t) == task[t].pc = "done" /\ task[t].auth = "failed"

\* C1: after a pipeline run that failed at any stage, no credential field
\* obtained during that run remains set.
C1_FailedRunLeavesNothing ==
  \A t \in Tasks : RunFailed(t) => NothingFrom(task[t].id)

\* C2: callers that find the credentials missing never run the pipeline side
\* by side: at most one run started by get_devices / control_device is in
\* progress at any time, so a single login request serves them all.
C2_OnePipelineAtATime ==
  Cardinality({t \in Tasks : /\ task[t].auth = "running"
                             /\ task[t].op \in {"list", "ctl"}}) <= 1

\* C3: the stage requests of a run are sent in the order login, refresh,
\* exchange; while a refresh request is out, the response received before it
\* is the run's login response and the login succeeded; while an exchange
\* request is out, the response received before it is the run's refresh
\* response and the refresh succeeded.
C3_StagesInOrder ==
  \A t \in Tasks :
    /\ IsPrefix(task[t].trace, StageOrder)
    /\ task[t].pc = "login" => task[t].trace = <<"login">>
    /\ task[t].pc = "refresh" =>
         /\ task[t].trace = <<"login", "refresh">>
         /\ task[t].last.stage = "login" /\ RespOk(task[t].last)
    /\ task[t].pc = "aws" =>
         /\ task[t].trace = StageOrder
         /\ task[t].last.stage = "refresh" /\ RespOk(task[t].last)

\* C4: a get_devices / control_device call made while the credentials are
\* complete and not within the refresh buffer of their expiry sends no
\* authentication request.
C4_FreshCallSkipsAuth ==
  \A t \in Tasks :
    ( /\ task[t].op \in {"list", "ctl"}
      /\ task[t].pre.full /\ task[t].pre.fresh )
    => task[t].trace = <<>>

\* C5: a control request is out only if the call found the cloud credentials
\* fresh or re-ran the pipeline successfully before sending it.
C5_ControlOnlyWithFreshCreds ==
  \A t \in Tasks :
    task[t].pc = "ctl" => (task[t].pre.fresh \/ task[t].auth = "ok")

\* C6: a get_devices call sends the listing request, or returns a result,
\* only if it found the credentials complete and fresh or ran the pipeline
\* successfully first.
C6_ListingEnsuresAuth ==
  \A t \in Tasks :
    ( /\ task[t].op = "list"
      /\ \/ task[t].pc \in {"list", "list2"}
         \/ task[t].pc = "done" /\ task[t].res \in {"devices", "empty", "null"} )
    => \/ task[t].pre.full /\ task[t].pre.fresh
       \/ task[t].auth = "ok"

\* C7: TCLAPI.get_devices re-authenticates whenever the stored expiry (an
\* ISO-8601 UTC string) is at most Skew minutes away, the case of exactly
\* Skew minutes included.
C7_BoundaryIsStale ==
  \A t \in Tasks :
    ( /\ impl = "tcl" /\ task[t].op = "list"
      /\ task[t].pre.full /\ task[t].pre.enc = "iso" /\ ~task[t].pre.fresh )
    => task[t].trace # <<>>

\* C8: TCLAPI.get_devices re-runs authentication when the stored expiry
\* cannot be parsed.
C8_UnparseableIsExpired ==
  \A t \in Tasks :
    ( /\ impl = "tcl" /\ task[t].op = "list"
      /\ task[t].pre.full /\ task[t].pre.enc = "bad" )
    => task[t].trace # <<>>

\* C9: no listing or control request is out for a call that found cloud
\* credentials without a stored expiry, unless the call re-ran the pipeline
\* successfully first.
C9_AbsentExpiryIsInvalid ==
  \A t \in Tasks :
    ( /\ task[t].pc \in {"list", "list2", "ctl"}
      /\ task[t].pre.cloud /\ task[t].pre.enc \in {"absent", "none"} )
    => task[t].auth = "ok"

\* C10 (src/api.py, tcl_ac/api.py): when the login response is a 2xx JSON
\* object with a non-success status, the call has ended with the
\* authentication error, login was the only stage request of the run, no
\* credential field holds a value of that run, and on a client that had
\* made no call before every credential field is still empty.
C10_BadStatusLogin ==
  \A t \in Tasks :
    ( /\ impl \in {"root", "ac"}
      /\ task[t].last.stage = "login" /\ BadStatus(task[t].last) )
    => /\ task[t].pc = "done" /\ task[t].res = "AuthError"
       /\ task[t].trace = <<"login">>
       /\ NothingFrom(task[t].id)
       /\ (task[t].id = 1 /\ nCalls = 1) => creds = EmptyCreds

\* C10 witness: a login response with a non-success status that nevertheless
\* carries the token and the user id has been handled.
C10_Witness ==
  \E t \in Tasks :
    /\ impl \in {"root", "ac"}
    /\ task[t].last.stage = "login" /\ BadStatus(task[t].last)
    /\ task[t].last.fields
    /\ task[t].pc = "done"

\* the cloud-credential fields of the client
CloudFields == {"aws", "ak", "sk", "st"}

\* the exchange response was a 2xx JSON object with a "Credentials" entry
\* that lacks one of its three keys
IncompleteExchange(l) ==
  l.stage = "aws" /\ l.http = "ok" /\ l.body = "json" /\ l.fields /\ ~l.status

\* C11 (src/api.py, tcl_ac/api.py): when the exchange response lacks one of
\* AccessKeyId, SecretKey, SessionToken, the call has ended with the client's
\* error and no cloud-credential field holds a value taken from that
\* response.
C11_IncompleteExchangeKeepsFields ==
  \A t \in Tasks :
    ( impl \in {"root", "ac"} /\ IncompleteExchange(task[t].last) )
    => /\ task[t].pc = "done" /\ task[t].res \in {"ApiError", "AuthError"}
       /\ \A f \in CloudFields : creds[f] # task[t].id

\* C12 (src/api.py, tcl_ac/api.py): when the token-refresh stage succeeded
\* with a federated token whose decoded expiry lies in the past, the call
\* has ended with the authentication error and its run has sent no
\* exchange request.
C12_ExpiredCognitoStopsRun ==
  \A t \in Tasks :
    ( /\ impl \in {"root", "ac"}
      /\ task[t].last.stage = "refresh" /\ RespOk(task[t].last)
      /\ task[t].last.data = "expired" )
    => /\ task[t].pc = "done" /\ task[t].res = "AuthError"
       /\ task[t].trace = <<"login", "refresh">>

\* C12 witness: a run of either asyncio client has ended on such a token.
C12_Witness ==
  \E t \in Tasks :
    /\ impl \in {"root", "ac"}
    /\ task[t].last.stage = "refresh" /\ RespOk(task[t].last)
    /\ task[t].last.data = "expired"
    /\ task[t].pc = "done"

\* the control request of the call was answered with HTTP 401 or 403
CtlRejected(tk) ==
  tk.op = "ctl" /\ tk.last.stage = "ctl" /\ tk.last.http = "auth"

\* C13: a control call whose request is answered with 401/403 does not end
\* there with an error: the client goes on to re-authenticate and resend.
C13_RejectedControlIsRetried ==
  \A t \in Tasks :
    CtlRejected(task[t]) =>
      ~(task[t].pc = "done" /\ task[t].res \in {"AuthError", "ApiError"})

\* the number of login requests among the pipeline requests tr
LoginCount(tr) == Cardinality({i \in 1..Len(tr) : tr[i] = "login"})

\* what a call ends with when it raises one of the client's error types
ClientErrors == {"AuthError", "ApiError"}

\* C14: a control call runs the pipeline at most once, and when its request
\* is answered with 401/403 the call is over, with an error.
C14_ControlReauthBounded ==
  \A t \in Tasks :
    task[t].op = "ctl" =>
      /\ LoginCount(task[t].trace) <= 1
      /\ CtlRejected(task[t]) =>
           task[t].pc = "done" /\ task[t].res \in ClientErrors

\* C14 witness: a control call that ran the pipeline once, sent its request
\* and had it rejected has ended.
C14_Witness ==
  \E t \in Tasks :
    /\ CtlRejected(task[t]) /\ task[t].pc = "done"
    /\ LoginCount(task[t].trace) = 1

\* the stage's request failed or its response reported a failure
StageRejected(l) == l.http # "ok" \/ (l.body = "json" /\ ~l.status)

\* C15 (src/api.py, tcl_ac/api.py): a call sends the login request at most
\* once, and when its token-refresh or exchange stage fails the call is over
\* with its pipeline run failed.
C15_LoginOncePerRun ==
  \A t \in Tasks :
    impl \in {"root", "ac"} =>
      /\ LoginCount(task[t].trace) <= 1
      /\ ( task[t].last.stage \in {"refresh", "aws"}
           /\ StageRejected(task[t].last) )
         => /\ task[t].pc = "done" /\ task[t].auth = "failed"
            /\ task[t].res \in ClientErrors

\* C15 witness: a run has ended on a rejected token refresh.
C15_Witness ==
  \E t \in Tasks :
    /\ impl \in {"root", "ac"}
    /\ task[t].last.stage = "refresh" /\ StageRejected(task[t].last)
    /\ task[t].trace = <<"login", "refresh">>
    /\ task[t].pc = "done"

\* C16 (tcl_ac/api.py): a call whose pipeline run failed never ends with
\* authenticate() returning False.
C16_FailureIsRaised ==
  \A t \in Tasks : RunFailed(t) => task[t].res # "false"

C18_NetworkErrorToldApart ==
  \A t \in Tasks :
    ( /\ task[t].pc = "done"
      /\ task[t].last.stage \in {"login", "refresh", "aws"}
      /\ task[t].last.http = "net" )
    => task[t].res # "AuthError"

\* the listing response was a 2xx JSON object
ListAnswered(l) == l.stage = "list" /\ l.http = "ok" /\ l.body = "json"

\* C19: a listing response whose vendor code reports an error ends the call
\* with the client's error, never with a device list.
C19_ListingErrorIsRaised ==
  \A t \in Tasks :
    ( ListAnswered(task[t].last) /\ ~task[t].last.status )
    => task[t].pc = "done" /\ task[t].res \in ClientErrors

\* C20: a listing response with the success code and an empty data list
\* ends the call with an empty list.
C20_EmptyListIsNoError ==
  \A t \in Tasks :
    ( /\ ListAnswered(task[t].last) /\ task[t].last.status
      /\ task[t].last.data = "empty" )
    => task[t].pc = "done" /\ task[t].res = "empty"

\* C20 witness: the tcl_ac client has handled such a response.
C20_Witness ==
  \E t \in Tasks :
    /\ impl = "ac"
    /\ ListAnswered(task[t].last) /\ task[t].last.status
    /\ task[t].last.data = "empty"
    /\ task[t].pc = "done"

C21_FreshNoncePerRequest ==
  /\ \A t \in Tasks : \A i, j \in 1..Len(task[t].reqs) :
       i # j => task[t].reqs[i].nonce # task[t].reqs[j].nonce
  /\ \A t, u \in Tasks :
       \A i \in 1..Len(task[t].reqs), j \in 1..Len(task[u].reqs) :
         t # u => task[t].reqs[i].nonce # task[u].reqs[j].nonce

\* C22: the sign header of every listing request sent is the MD5 digest of
\* the timestamp, nonce and token headers of that same request.
C22_SignCoversOwnHeaders ==
  \A t \in Tasks : \A i \in 1..Len(task[t].reqs) :
    LET rq == task[t].reqs[i]
    IN  rq.sign = LegacySign(rq.timestamp, rq.nonce, rq.token)

\* C30: a call of TCLAPI.get_devices sends at most two listing requests, the
\* second only in answer to a 403 on the first, and a second request that
\* fails ends the call with the connection error.
C30_OneRetryOn403 ==
  \A t \in Tasks :
    impl = "tcl" =>
      /\ Len(task[t].reqs) <= 2
      /\ task[t].pc = "list2" =>
            /\ Len(task[t].reqs) = 2
            /\ task[t].last.stage = "list" /\ task[t].last.http = "forbid"
      /\ ( /\ Len(task[t].reqs) = 2 /\ task[t].pc # "list2"
           /\ (task[t].last.http # "ok" \/ task[t].last.body = "text") )
         => task[t].pc = "done" /\ task[t].res = "ApiError"
      /\ (Len(task[t].reqs) = 2 /\ task[t].pc # "list2")
         => task[t].pc = "done" /\ task[t].res \in {"devices", "empty", "ApiError"}

\* C30 witness: the second listing request was answered 403 as well and the
\* call has ended.
C30_Witness ==
  \E t \in Tasks :
    /\ impl = "tcl" /\ Len(task[t].reqs) = 2
    /\ task[t].pc = "done" /\ task[t].last.http = "forbid"

\* C23: two control calls waiting for their answers at the same time have
\* sent different clientToken values.
C23_ClientTokensDiffer ==
  \A t, u \in Tasks :
    (t # u /\ task[t].pc = "ctl" /\ task[u].pc = "ctl")
      => task[t].ctl.clientToken # task[u].ctl.clientToken

\* C24: a control request that has been sent is signed for the service
\* "iotdata" with the access key, secret key and session token the client
\* holds, none of them missing.
C24_ControlIsSigned ==
  \A t \in Tasks :
    task[t].pc = "ctl" =>
      /\ task[t].ctl.service = "iotdata"
      /\ task[t].ctl.ak = creds.ak /\ creds.ak # None
      /\ task[t].ctl.sk = creds.sk /\ creds.sk # None
      /\ task[t].ctl.st = creds.st /\ creds.st # None

\* C24 witness: a control request sent right after the pipeline run that
\* the control call started.
C24_Witness ==
  \E t \in Tasks :
    /\ task[t].pc = "ctl" /\ task[t].op = "ctl"
    /\ task[t].trace = <<"login", "refresh", "aws">>

\* C25: the exchange request names the identity id of the refresh response
\* when that response carried one, and the built-in id only when it did not.
C25_ReturnedIdentityIsUsed ==
  \A t \in Tasks :
    task[t].pc = "aws" =>
      task[t].identity = (IF task[t].last.cid THEN "returned" ELSE "default")

\* the fields a stage writes, and those it cannot complete without
StageFields(stage) ==
  CASE stage = "login"   -> {"sso", "user", "country"}
    [] stage = "refresh" -> {"saas", "cognito", "cognitoId"}
    [] OTHER             -> {"aws", "ak", "sk", "st"}

StageRequired(stage) ==
  CASE stage = "login"   -> {"sso", "user"}
    [] stage = "refresh" -> {"saas", "cognito"}
    [] OTHER             -> {"ak", "sk", "st"}

\* C26: after a call was cancelled while the request of a stage was in
\* flight, no field of that stage or of a later one holds a value of the
\* cancelled run, and the fields of the stages the run had completed hold
\* that stage's values in full.
C26_CancelLeavesCompletedStages ==
  \A t \in Tasks :
    task[t].res = "Cancelled" =>
      LET tr == task[t].trace
          k  == Len(tr)
      IN  /\ k >= 1
          /\ \A s \in {"login", "refresh", "aws"} :
               IF \E i \in 1..(k - 1) : tr[i] = s
               THEN /\ \A f \in StageRequired(s) : creds[f] = task[t].id
                    /\ \A f \in StageFields(s) : creds[f] \in {None, task[t].id}
               ELSE \A f \in StageFields(s) : creds[f] # task[t].id

\* C26 witness: a run cancelled while its refresh request was in flight, made
\* by a client that held the credentials of an earlier run.
C26_Witness ==
  \E t \in Tasks :
    /\ task[t].res = "Cancelled" /\ task[t].trace = <<"login", "refresh">>
    /\ task[t].id = 2 /\ creds.saas = 1

\* C28: a stored expiry leads to the same refresh decision whether it came
\* as an ISO-8601 string or as a UNIX timestamp of the same instant,
\* whatever the time zone of the host.
C28_SameDecisionForBothEncodings ==
  (impl = "tcl" /\ creds.expEnc \in {"iso", "num"}) =>
    TclValidate([creds EXCEPT !.expEnc = "iso"], now)
      = TclValidate([creds EXCEPT !.expEnc = "num"], now)

\* C29: when the first refresh of async_setup_entry gets an empty device
\* list, setup completes and returns True.
C29_SetupWithNoDevices ==
  \A t \in Tasks :
    (task[t].op = "setup" /\ task[t].pc = "done" /\ task[t].res = "empty")
      => task[t].setup = "True"

\* C35: when a call of the pipeline (authenticate, async_do_account_auth) of
\* an asyncio client has returned True, the service-access token, the
\* country code and the three cloud-credential fields are all set.
C35_SuccessMeansAllSet ==
  \A t \in Tasks :
    ( /\ impl \in {"root", "ac"}
      /\ task[t].op = "auth" /\ task[t].pc = "done" /\ task[t].res = "ok" )
    => /\ creds.saas # None /\ creds.country # None
       /\ creds.ak # None /\ creds.sk # None /\ creds.st # None

\* C36: a TCLAPI.get_devices call that finds the cloud credentials unset
\* runs authentication before anything else.
C36_ListingReauthsAfterFailure ==
  \A t \in Tasks :
    (impl = "tcl" /\ task[t].op = "list" /\ ~task[t].pre.cloud)
      => task[t].trace # <<>>

\* C37: a pipeline run that ended with an exception ended with one of the
\* client's own error types.
C37_OnlyOwnErrorsEscape ==
  \A t \in Tasks :
    ( /\ task[t].pc = "done" /\ task[t].auth = "failed"
      /\ task[t].res \notin {"false", "Cancelled"} )
    => task[t].res \in ClientErrors

\* C33: the exchange stage of the tcl_ac client sends its request only with
\* a Cognito token stored, and once it has handled the response it has
\* either returned True with the three cloud-credential fields set or
\* raised TclAuthenticationError.
C33_ExchangeOutcomes ==
  \A t \in Tasks :
    impl = "ac" =>
      /\ task[t].pc = "aws" => creds.cognito # None
      /\ task[t].last.stage = "aws" =>
            \/ /\ task[t].auth = "ok"
               /\ creds.ak # None /\ creds.sk # None /\ creds.st # None
            \/ /\ task[t].pc = "done" /\ task[t].auth = "failed"
               /\ task[t].res = "AuthError"

\* C33 witness: the stage has handled an HTTP-200 response whose
\* "Credentials" lack one of the three keys.
C33_Witness ==
  \E t \in Tasks :
    /\ impl = "ac" /\ task[t].last.stage = "aws"
    /\ task[t].last.http = "ok" /\ task[t].last.fields /\ ~task[t].last.status
    /\ task[t].res = "AuthError"

\* C31: a setup of the tcl_ac integration whose authenticate() returned
\* False fails with ConfigEntryAuthFailed, and one that fails with
\* ConfigEntryNotReady had authenticate() raise something other than the
\* authentication error.
C31_FalseAuthFailsSetup ==
  \A t \in Tasks :
    (impl = "ac" /\ task[t].op = "setup" /\ task[t].pc = "done") =>
      /\ task[t].res = "false" => task[t].setup = "AuthFailed"
      /\ task[t].setup = "NotReady" => task[t].res \notin {"false", "AuthError"}

\* C32: when authenticate() returned True and the listing returned at least
\* one device, async_step_user returns the form of the select_devices step.
C32_FlowShowsSelection ==
  \A t \in Tasks :
    ( /\ impl = "ac" /\ task[t].op = "flow" /\ task[t].pc = "done"
      /\ task[t].auth = "ok" /\ task[t].res = "devices" )
    => task[t].flow = "select_devices_form"

\* C38: the access key, secret key and session token that sign a control
\* request come from one exchange response, whatever the other callers of
\* the client do meanwhile.
C38_SignedFromOneResponse ==
  \A t \in Tasks :
    task[t].pc = "ctl" =>
      /\ task[t].ctl.ak = task[t].ctl.sk
      /\ task[t].ctl.sk = task[t].ctl.st

C39_ReportsLastCommand ==
  /\ (entity.acked = "on" =>
        /\ ClimateHvacMode(entity) = "cool"
        /\ ClimateHvacAction(entity) = "cooling")
  /\ (entity.acked = "off" =>
        /\ ClimateHvacMode(entity) = "off"
        /\ ClimateHvacAction(entity) = "off")

====
